---- MODULE Spec2Model ----
(***************************************************************************)
(* Model of src/logger.py: a loop that asks "What are you doing?" through  *)
(* an osascript dialog every 1800 seconds and appends the answer, with an  *)
(* HH:MM timestamp, to log.md under a "## YYYY-MM-DD" header.              *)
(*                                                                         *)
(* Text is a sequence of one-character strings, so that formatting,        *)
(* stripping, newline translation and the substring test of write() are    *)
(* computed character by character, as Python computes them.               *)
(***************************************************************************)
EXTENDS Integers, Sequences, FiniteSets, TLC

VARIABLES
    procs,    \* the running instances of the program (fixed in a behaviour)
    pc,       \* pc[p]: where instance p stands in main() / write()
    ans,      \* ans[p]: main()'s local `ans`
    frame,    \* frame[p]: write()'s locals today, ts, text between its read and its append
    exists,   \* log.exists()
    log,      \* the contents of log.md
    clock,    \* the local wall clock: [date, time]
    run,      \* run[p]: how many times instance p has been started
    slept,    \* slept[p]: seconds slept since the last prompt of this run returned
    typed,    \* what the dialog can print in this behaviour (fixed in a behaviour)
    fault,    \* fault[p]: the exception that ended this run, "none" if none
    answers,  \* history: every non-empty answer prompt() returned, in order
    hist,     \* history: every completed write(), in order
    torn      \* history: a failed flush has left part of a payload in the file

vars == <<procs, typed, pc, ans, frame, exists, log, clock, run, slept, fault,
          answers, hist, torn>>

-----------------------------------------------------------------------------
(* Bounds of the model *)

MaxWrites == 2     \* answered prompts in a behaviour
MaxRuns == 2       \* process runs per instance (a fault ends a run)

-----------------------------------------------------------------------------
(* Characters and text *)

LF == "\n"
CR == "\r"
SP == " "
TAB == "\t"

\* str.strip() with no argument removes these (the ASCII ones that can occur here)
Whitespace == {SP, LF, CR, TAB}

Digits == <<"0", "1", "2", "3", "4", "5", "6", "7", "8", "9">>

\* %m, %d, %H, %M: two digits, zero padded
Pad2(n) == <<Digits[((n \div 10) % 10) + 1], Digits[(n % 10) + 1]>>

\* %Y: four digits
Pad4(n) == <<Digits[((n \div 1000) % 10) + 1], Digits[((n \div 100) % 10) + 1],
             Digits[((n \div 10) % 10) + 1], Digits[(n % 10) + 1]>>

\* datetime.date.today().strftime("%Y-%m-%d")
StrfDate(d) == Pad4(d.y) \o <<"-">> \o Pad2(d.m) \o <<"-">> \o Pad2(d.d)

\* datetime.datetime.now().strftime("%H:%M")
StrfTime(t) == Pad2(t.hh) \o <<":">> \o Pad2(t.mm)

RECURSIVE LStrip(_)
LStrip(s) ==
    IF s = <<>> THEN s
    ELSE IF Head(s) \in Whitespace THEN LStrip(Tail(s)) ELSE s

RECURSIVE RStrip(_)
RStrip(s) ==
    IF s = <<>> THEN s
    ELSE IF s[Len(s)] \in Whitespace THEN RStrip(SubSeq(s, 1, Len(s) - 1)) ELSE s

\* str.strip()
Strip(s) == RStrip(LStrip(s))

\* Text-mode reading (newline=None): "\r\n" and "\r" are read as "\n"
RECURSIVE UniversalNewlines(_)
UniversalNewlines(s) ==
    IF s = <<>> THEN s
    ELSE IF Head(s) = CR
         THEN <<LF>> \o UniversalNewlines(
                  IF Len(s) >= 2 /\ s[2] = LF THEN Tail(Tail(s)) ELSE Tail(s))
         ELSE <<Head(s)>> \o UniversalNewlines(Tail(s))

\* Python's `h in text` on strings
Contains(h, text) ==
    \E i \in 0..(Len(text) - Len(h)) : SubSeq(text, i + 1, i + Len(h)) = h

-----------------------------------------------------------------------------
(* The environment: clock readings and what the dialog can print *)

D1 == [y |-> 2024, m |-> 1, d |-> 1]
D2 == [y |-> 2024, m |-> 1, d |-> 2]
Dates == {D1, D2}

T0915 == [hh |-> 9, mm |-> 15]
T1000 == [hh |-> 10, mm |-> 0]
T0005 == [hh |-> 0, mm |-> 5]

Clocks == {[date |-> D1, time |-> T0915],
           [date |-> D1, time |-> T1000],
           [date |-> D2, time |-> T0005]}

\* "writing code", as osascript prints it: with a trailing newline
OutWritingCode == <<"w", "r", "i", "t", "i", "n", "g", SP, "c", "o", "d", "e", LF>>
\* the user types a Markdown heading that is a date
OutHeading == <<"#", "#", SP, "2", "0", "2", "4", "-", "0", "1", "-", "0", "2", LF>>
\* two lines entered into the the line break printed as CR
OutTwoLines == <<"b", CR, "-", SP, "1", "0", ":", "0", "0", SP, "c", LF>>
\* OK pressed on an empty field, and on a field of blanks
OutEmpty == <<LF>>
OutBlank == <<SP, SP, LF>>

Stdouts == {OutWritingCode, OutHeading, OutTwoLines, OutEmpty, OutBlank}

\* What prompt() can return: None, or a str
None == [some |-> FALSE, str |-> <<>>]
Str(s) == [some |-> TRUE, str |-> s]

\* write()'s locals when write() is not running
NoFrame == [live |-> FALSE, date |-> D1, time |-> T0915,
            today |-> <<>>, ts |-> <<>>, text |-> <<>>]

-----------------------------------------------------------------------------
(* prompt(), lines 7-14 *)

\* subprocess.run(..., text=True): stdout is decoded with newline translation
RunText(raw) == UniversalNewlines(raw)

\* return r.stdout.strip() if r.returncode == 0 else None
PromptReturn(returncode, stdout) ==
    IF returncode = 0 THEN Str(Strip(stdout)) ELSE None

-----------------------------------------------------------------------------
(* main(), lines 32-37 *)

SleepSeconds == 1800

\* a slip: `if ans is not None:`
NotNone(a) == a.some

\* `if ans:` -- None and "" are both false
Truthy(a) == a.some /\ a.str # <<>>

\* after `ans = prompt()`: write(ans) if ans, else straight to time.sleep
AfterPrompt(a) == IF Truthy(a) THEN "write" ELSE "sleep"

\* a slip: time.sleep in an else branch, so that a write skips it
SleepSkipped == "prompt"

\* after write(ans) returns: time.sleep(1800)
AfterWrite == "sleep"

\* after time.sleep(1800) returns: `while True` goes back to prompt()
AfterSleep == "prompt"

\* a slip: the loop body in try/except, the loop going on to its sleep
Swallowed == "sleep"

\* main() has no try/except: an exception raised in prompt() or write()
\* leaves the loop and ends the process
OnException == "crashed"

-----------------------------------------------------------------------------
(* write(), lines 17-29 *)

\* h = f"## {today}\n"
Header(today) == <<"#", "#", SP>> \o today \o <<LF>>

\* text = log.read_text(encoding="utf-8") if log.exists() else ""
ReadText(ex, content) == IF ex THEN UniversalNewlines(content) ELSE <<>>

\* a slip: `if not text:`
HeaderOnlyWhenEmpty(h, text) == text = <<>>

\* a slip: the header written by every call
HeaderAlways(h, text) == TRUE

\* `if h not in text:`
NeedsHeader(h, text) == ~Contains(h, text)

\* f"- {ts} {entry}\n"
EntryLine(ts, entry) == <<"-", SP>> \o ts \o <<SP>> \o entry \o <<LF>>

\* a slip: the two f.write calls in the other order
PayloadHeaderLast(h, text, ts, entry) ==
    EntryLine(ts, entry) \o (IF NeedsHeader(h, text) THEN <<LF>> \o h ELSE <<>>)

\* what the `with` block writes to f: "\n" + h when the header is missing,
\* then the entry line
Payload(h, text, ts, entry) ==
    (IF NeedsHeader(h, text) THEN <<LF>> \o h ELSE <<>>) \o EntryLine(ts, entry)

\* a slip: log.open("w"), which truncates
OpenTruncate(content, data) == data

\* log.open("a"): what is written lands after the present end of the file
OpenAppend(content, data) == content \o data

-----------------------------------------------------------------------------
(* State after construction *)

InitOf(ps, outs) ==
    /\ procs = ps
    /\ typed = outs
    /\ pc = [p \in ps |-> "prompt"]        \* main() starts with prompt(), no sleep
    /\ ans = [p \in ps |-> None]
    /\ frame = [p \in ps |-> NoFrame]
    /\ exists = FALSE                      \* log.md is created lazily
    /\ log = <<>>
    /\ clock \in Clocks
    /\ run = [p \in ps |-> 1]
    /\ slept = [p \in ps |-> 0]
    /\ fault = [p \in ps |-> "none"]
    /\ answers = <<>>
    /\ hist = <<>>
    /\ torn = FALSE

\* the instances that can be started
Instances == {1, 2}

\* one instance of the program: the intended use
Init == InitOf({1}, Stdouts)

\* one instance, or two instances started on the same log.md; the user
\* types plain text
Init2 == \E ps \in {{1}, Instances} : InitOf(ps, {OutWritingCode})

-----------------------------------------------------------------------------
(* Steps of main() *)

\* ans = prompt(), osascript launched: it exits with some return code and some
\* output; then `if ans:` chooses between write(ans) and time.sleep
Prompt(p) ==
    /\ p \in procs
    /\ pc[p] = "prompt"
    /\ \E returncode \in {0, 1}, raw \in typed :
         LET a == PromptReturn(returncode, RunText(raw)) IN
           /\ Truthy(a) => Len(answers) < MaxWrites
           /\ ans' = [ans EXCEPT ![p] = a]
           /\ pc' = [pc EXCEPT ![p] = AfterPrompt(a)]
                  /\ answers' = IF Truthy(a) THEN Append(answers, a.str) ELSE answers
    /\ slept' = [slept EXCEPT ![p] = 0]
    /\ UNCHANGED <<procs, typed, frame, exists, log, clock, run, fault, hist, torn>>

\* ans = prompt(), osascript cannot be launched: subprocess.run raises
\* FileNotFoundError, which nothing catches
PromptLaunchFails(p) ==
    /\ p \in procs
    /\ pc[p] = "prompt"
    /\ pc' = [pc EXCEPT ![p] = OnException]
    /\ fault' = [fault EXCEPT ![p] = "launch"]
    /\ slept' = [slept EXCEPT ![p] = 0]
    /\ UNCHANGED <<procs, typed, ans, frame, exists, log, clock, run, answers, hist, torn>>

\* write(ans), lines 18-25: read the clock, then the file if it exists
WriteRead(p) ==
    /\ p \in procs
    /\ pc[p] = "write"
    /\ frame' = [frame EXCEPT ![p] =
                    [live |-> TRUE, date |-> clock.date, time |-> clock.time,
                     today |-> StrfDate(clock.date), ts |-> StrfTime(clock.time),
                     text |-> ReadText(exists, log)]]
    /\ pc' = [pc EXCEPT ![p] = "append"]
    /\ UNCHANGED <<procs, typed, ans, exists, log, clock, run, slept, fault,
                   answers, hist, torn>>

\* write(ans), line 23: read_text raises (permissions, undecodable bytes)
WriteReadFails(p) ==
    /\ p \in procs
    /\ pc[p] = "write"
    /\ exists
    /\ pc' = [pc EXCEPT ![p] = OnException]
    /\ fault' = [fault EXCEPT ![p] = "read"]
    /\ UNCHANGED <<procs, typed, ans, frame, exists, log, clock, run, slept,
                   answers, hist, torn>>

\* write(ans), lines 26-29: open for append (creating the file), write the
\* header if `h not in text`, write the entry line, close; then main() sleeps
WriteAppend(p) ==
    /\ p \in procs
    /\ pc[p] = "append"
    /\ LET f == frame[p]
           h == Header(f.today)
           data == Payload(h, f.text, f.ts, ans[p].str)
       IN /\ exists' = TRUE
          /\ log' = OpenAppend(log, data)
          /\ hist' = Append(hist,
                 [p |-> p, date |-> f.date, time |-> f.time, entry |-> ans[p].str,
                  hdr |-> NeedsHeader(h, f.text), text |-> f.text,
                  pre |-> log, post |-> OpenAppend(log, data)])
    /\ frame' = [frame EXCEPT ![p] = NoFrame]
    /\ pc' = [pc EXCEPT ![p] = AfterWrite]
    /\ UNCHANGED <<procs, typed, ans, clock, run, slept, fault, answers, torn>>

\* write(ans), line 26: log.open("a") raises (permissions); nothing is created
WriteOpenFails(p) ==
    /\ p \in procs
    /\ pc[p] = "append"
    /\ pc' = [pc EXCEPT ![p] = OnException]
    /\ fault' = [fault EXCEPT ![p] = "open"]
    /\ frame' = [frame EXCEPT ![p] = NoFrame]
    /\ UNCHANGED <<procs, typed, ans, exists, log, clock, run, slept, answers, hist, torn>>

\* how much of the buffered data can reach the disk before the flush fails
CutPoints(h, data) == {0, 1, Len(h) + 1, Len(data) - 1} \cap (0..(Len(data) - 1))

\* write(ans), lines 26-29: the file is opened (and so created), but flushing
\* the buffer fails (disk full) after part of it was written
WriteFlushFails(p) ==
    /\ p \in procs
    /\ pc[p] = "append"
    /\ LET f == frame[p]
           h == Header(f.today)
           data == Payload(h, f.text, f.ts, ans[p].str)
       IN \E k \in CutPoints(h, data) :
            /\ exists' = TRUE
            /\ log' = OpenAppend(log, SubSeq(data, 1, k))
    /\ pc' = [pc EXCEPT ![p] = OnException]
    /\ fault' = [fault EXCEPT ![p] = "flush"]
    /\ torn' = TRUE
    /\ frame' = [frame EXCEPT ![p] = NoFrame]
    /\ UNCHANGED <<procs, typed, ans, clock, run, slept, answers, hist>>

\* time.sleep(1800) returns; the wall clock has moved (it can also have been
\* set back)
Sleep(p) ==
    /\ p \in procs
    /\ pc[p] = "sleep"
    /\ pc' = [pc EXCEPT ![p] = AfterSleep]
    /\ slept' = [slept EXCEPT ![p] = slept[p] + SleepSeconds]
    /\ clock' \in Clocks
    /\ UNCHANGED <<procs, typed, ans, frame, exists, log, run, fault, answers, hist, torn>>

\* lines 40-41: the program is started again, after it crashed or after it
\* was killed while sleeping
Restart(p) ==
    /\ p \in procs
    /\ pc[p] \in {"sleep", "crashed"}
    /\ run[p] < MaxRuns
    /\ run' = [run EXCEPT ![p] = run[p] + 1]
    /\ pc' = [pc EXCEPT ![p] = "prompt"]
    /\ ans' = [ans EXCEPT ![p] = None]
    /\ frame' = [frame EXCEPT ![p] = NoFrame]
    /\ slept' = [slept EXCEPT ![p] = 0]
    /\ fault' = [fault EXCEPT ![p] = "none"]
    /\ clock' \in Clocks
    /\ UNCHANGED <<procs, typed, exists, log, answers, hist, torn>>

\* the loop of main() when nothing fails
Loop(p) ==
    \/ Prompt(p)
    \/ WriteRead(p)
    \/ WriteAppend(p)
    \/ Sleep(p)

\* the ways a run ends, and the next run
Lifecycle(p) ==
    \/ PromptLaunchFails(p)
    \/ WriteReadFails(p)
    \/ WriteOpenFails(p)
    \/ WriteFlushFails(p)
    \/ Restart(p)

Next == \E p \in Instances : Loop(p) \/ Lifecycle(p)

\* fault-free steps only
NextLoop == \E p \in Instances : Loop(p)

\* a single instance
Spec == Init /\ [][Next]_vars

\* a single instance whose user answers "writing code" or nothing;
\* time.sleep always returns
FairSpec == InitOf({1}, {OutWritingCode, OutEmpty}) /\ [][Next]_vars /\ WF_vars(Sleep(1))

\* one or two instances on the same log.md, each in its first run, no faults
Spec2 == Init2 /\ [][NextLoop]_vars

-----------------------------------------------------------------------------
(* Vocabulary of the properties: the file as a reader sees it.  The dates   *)
(* and times are spelled out here, not computed by StrfDate and StrfTime.  *)

IsPrefix(a, b) == Len(a) <= Len(b) /\ SubSeq(b, 1, Len(a)) = a

IsoDate(d) ==
    CASE d = D1 -> <<"2", "0", "2", "4", "-", "0", "1", "-", "0", "1">>
      [] d = D2 -> <<"2", "0", "2", "4", "-", "0", "1", "-", "0", "2">>

HHMM(t) ==
    CASE t = T0915 -> <<"0", "9", ":", "1", "5">>
      [] t = T1000 -> <<"1", "0", ":", "0", "0">>
      [] t = T0005 -> <<"0", "0", ":", "0", "5">>

\* the Day Section header line of date d, without its line end
HeaderLineOf(d) == <<"#", "#", SP>> \o IsoDate(d)

\* the Entry line of text e written at time t, without its line end
EntryLineOf(t, e) == <<"-", SP>> \o HHMM(t) \o <<SP>> \o e

DateLess(a, b) ==
    \/ a.y < b.y
    \/ a.y = b.y /\ a.m < b.m
    \/ a.y = b.y /\ a.m = b.m /\ a.d < b.d

\* the lines of s from position i on, each without its line end
RECURSIVE LinesFrom(_, _)
LinesFrom(s, i) ==
    IF i > Len(s) THEN <<>>
    ELSE LET ends == {j \in i..Len(s) : s[j] = LF} IN
         IF ends = {} THEN <<SubSeq(s, i, Len(s))>>
         ELSE LET j == CHOOSE e \in ends : \A k \in ends : e <= k
              IN <<SubSeq(s, i, j - 1)>> \o LinesFrom(s, j + 1)

Lines(s) == LinesFrom(s, 1)

\* how many lines of s are exactly `line`
CountLines(s, line) ==
    LET ls == Lines(s) IN Cardinality({k \in DOMAIN ls : ls[k] = line})

IsEntryLine(l) == Len(l) >= 2 /\ l[1] = "-" /\ l[2] = SP

\* the Entry lines of s, in file order
EntryLines(s) == SelectSeq(Lines(s), IsEntryLine)

\* the dates with at least one completed write
LoggedDates == {hist[i].date : i \in DOMAIN hist}

\* where in the file the Entry line of the i-th completed write starts
EntryOffset(i) ==
    Len(hist[i].pre) + (IF hist[i].hdr THEN Len(HeaderLineOf(hist[i].date)) + 2 ELSE 0)

\* the date of the last Day Section header line of s: a set with that date,
\* or the empty set when s has no header line
SectionAt(s) ==
    LET ls == Lines(s)
        hs == {k \in DOMAIN ls : \E d \in Dates : ls[k] = HeaderLineOf(d)}
    IN IF hs = {} THEN {}
       ELSE LET k == CHOOSE m \in hs : \A n \in hs : n <= m
            IN {d \in Dates : ls[k] = HeaderLineOf(d)}

\* the date of the nearest Day Section header above the i-th write's Entry line
SectionOf(i) == SectionAt(SubSeq(log, 1, EntryOffset(i)))

-----------------------------------------------------------------------------
(* C1 *)

\* C1: for every date on which at least one entry was logged, the file holds
\* exactly one Day Section header line "## D" of that date
C1_OneHeaderPerLoggedDate ==
    \A d \in LoggedDates : CountLines(log, HeaderLineOf(d)) = 1

-----------------------------------------------------------------------------
(* C2 *)

\* C2: append-only -- in every step the contents of the file before the
\* step are a prefix of its contents after it, and the file is not removed
C2_AppendOnly == [][IsPrefix(log, log') /\ (exists => exists')]_vars

\* a write has completed on a file that already had contents
C2_Witness ==
    /\ Len(hist) >= 2
    /\ hist[2].pre # <<>>
    /\ log = hist[2].post
    /\ Len(log) > Len(hist[2].pre)

-----------------------------------------------------------------------------
(* C3 *)

\* C3: an iteration whose prompt yields None or "" goes to its sleep without
\* calling write, and neither that step nor the sleep changes, creates or
\* removes the file
C3_NoAnswerNoWrite ==
    [][\A p \in procs :
         /\ (pc[p] = "prompt" /\ pc'[p] \notin {"prompt", "crashed"}
                /\ (ans'[p] = None \/ ans'[p] = Str(<<>>)))
              => (pc'[p] = "sleep" /\ UNCHANGED <<exists, log, hist>>)
         /\ (pc[p] = "sleep" /\ ~Truthy(ans[p]))
              => UNCHANGED <<exists, log, hist>>]_vars

\* OK was pressed on an empty field after an entry had been logged, and the
\* instance is at its sleep
C3_Witness ==
    /\ pc[1] = "sleep"
    /\ ans[1] = Str(<<>>)
    /\ Len(hist) >= 1
    /\ log = hist[Len(hist)].post

-----------------------------------------------------------------------------
(* C4 *)

\* no write is under way, none was lost and no flush left a partial payload
AllAnswersWritten ==
    /\ \A p \in procs : pc[p] \in {"prompt", "sleep"}
    /\ Len(hist) = Len(answers)
    /\ ~torn

\* C4: the Entry lines of the file are, in order, one line "- HH:MM <ai>"
\* per non-empty answer, with the clock's HH:MM at the time of the write
C4_OneEntryLinePerAnswer ==
    AllAnswersWritten =>
        EntryLines(log) = [i \in 1..Len(answers) |-> EntryLineOf(hist[i].time, answers[i])]

-----------------------------------------------------------------------------
(* C5 *)

\* the step in which the dialog fails: osascript cannot be launched, or it
\* exits non-zero (which is also how a cancellation arrives)
DialogFails(p) ==
    /\ pc[p] = "prompt"
    /\ \/ fault[p] = "none" /\ fault'[p] = "launch"
       \/ pc'[p] # "prompt" /\ run'[p] = run[p] /\ fault'[p] = "none" /\ ans'[p] = None

\* C5: every kind of dialog failure leaves the instance at its sleep, running,
\* with nothing written
C5_DialogFailureIsNoEntry ==
    [][\A p \in procs :
         DialogFails(p) => (pc'[p] = "sleep" /\ UNCHANGED <<exists, log, hist>>)]_vars

-----------------------------------------------------------------------------
(* C6 *)

\* "## D\n", spelled out
HeaderTextOf(d) == HeaderLineOf(d) \o <<LF>>

-----------------------------------------------------------------------------
(* C7 *)

WriteFaults == {"read", "open", "flush"}

\* C7: a failure inside write ends the run at once -- it is not caught and
\* not retried, and until the program is started again the instance takes
\* no prompt, write or sleep step and the file stays as the failure left it
C7_WriteFailureTerminates ==
    [][\A p \in procs :
         /\ (fault[p] = "none" /\ fault'[p] \in WriteFaults)
              => (pc[p] \in {"write", "append"} /\ pc'[p] = "crashed"
                  /\ hist' = hist /\ slept' = slept)
         /\ (fault[p] \in WriteFaults /\ run'[p] = run[p])
              => (pc'[p] = "crashed" /\ fault'[p] = fault[p]
                  /\ UNCHANGED <<exists, log, hist, slept, answers>>)]_vars

\* the flush of a write failed after part of the payload reached the file
C7_Witness ==
    /\ pc[1] = "crashed"
    /\ fault[1] = "flush"
    /\ torn
    /\ log # <<>>

-----------------------------------------------------------------------------
(* C8 *)

\* the steps main() may take from one place to the next within a run
LoopOrder(p) ==
    /\ pc[p] = "prompt" =>
          /\ pc'[p] \in {"prompt", "write", "sleep", "crashed"}
          /\ pc'[p] = "write" => Truthy(ans'[p])
          /\ hist' = hist
    /\ pc[p] = "write" => (pc'[p] \in {"write", "append", "crashed"} /\ hist' = hist)
    /\ pc[p] = "append" =>
          /\ pc'[p] \in {"append", "sleep", "crashed"}
          /\ Len(hist') <= Len(hist) + 1
          /\ pc'[p] = "sleep" => Len(hist') = Len(hist) + 1
    /\ pc[p] = "sleep" =>
          /\ pc'[p] \in {"sleep", "prompt"}
          /\ hist' = hist
          /\ pc'[p] = "prompt" => (slept[p] = 0 /\ slept'[p] = 1800)
    /\ pc[p] = "crashed" => pc'[p] = "crashed"

\* C8: a run starts at the prompt without having slept; within a run the
\* order is prompt, then write only if answered, then one sleep of 1800 s,
\* then prompt; the loop ends only by a fault; every sleep is followed by a
\* prompt
C8_LoopOrder ==
    /\ pc[1] = "prompt" /\ slept[1] = 0
    /\ [][\A p \in procs :
            /\ run'[p] = run[p] => LoopOrder(p)
            /\ run'[p] # run[p] => (pc'[p] = "prompt" /\ slept'[p] = 0)]_vars
    /\ [](pc[1] = "crashed" => fault[1] # "none")
    /\ (pc[1] = "sleep") ~> (pc[1] = "prompt")

\* an answered iteration has run in full and the next prompt is up
C8_Witness ==
    /\ pc[1] = "prompt"
    /\ slept[1] = 1800
    /\ run[1] = 1
    /\ Len(hist) >= 1

-----------------------------------------------------------------------------
(* C9 *)

\* C9: a file with two Day Section header lines of one date is reached only
\* with two instances, the two headers appended by different instances, the
\* later of them after a read that no longer matched the file
C9_DuplicateHeaderNeedsTwoInstances ==
    /\ (\E d \in Dates : CountLines(log, HeaderLineOf(d)) >= 2) => procs = Instances
    /\ \A i, j \in DOMAIN hist :
         (i < j /\ hist[i].hdr /\ hist[j].hdr /\ hist[i].date = hist[j].date)
           => (procs = Instances /\ hist[i].p # hist[j].p /\ hist[j].text # hist[j].pre)

\* both instances read the file before either appended, both found the
\* header of 2024-01-01 absent, both appended it
C9_Witness ==
    /\ Len(hist) = 2
    /\ hist[1].date = D1 /\ hist[2].date = D1
    /\ hist[1].p # hist[2].p
    /\ hist[1].text = <<>> /\ hist[2].text = <<>>
    /\ hist[1].hdr /\ hist[2].hdr
    /\ CountLines(log, HeaderLineOf(D1)) = 2

-----------------------------------------------------------------------------
(* C10 *)

====
